---- MODULE Spec2Model ----
(***************************************************************************)
(* PlotSeries (src/plugins/plot/src/plot/PlotSeries.js): the sorted point  *)
(* buffer of a plot series, its min/max statistics and the events it       *)
(* emits.  Indices are 0-based as in the source; At(d, i) reads d[i].      *)
(***************************************************************************)
EXTENDS Integers, Sequences, FiniteSets, TLC

\* ---------------------------------------------------------------- bounds
\* Spec: x values of telemetry points are 1..MaxX, y values 1..MaxY.
MaxX == 3
MaxY == 2
\* SpecSorted: the buffers purged and queried hold x values 1..MaxSortedX.
MaxSortedX == 5
\* The source purges by reset when pointsToRemove >= 1000 (line 259).  The
\* model keeps the comparison and scales the number so that buffers of at
\* most MaxX points reach both strategies.
PurgeThreshold == 5
\* SpecLoad: at most MaxLoads calls of load.
MaxLoads == 1

XVals == 1..MaxX
YVals == 1..MaxY
\* range bounds and query values may lie outside the stored x values
RangeVals == 0..(MaxX + 1)
SortedRangeVals == 0..(MaxSortedX + 1)

\* A telemetry datum.  One object per (x, y) pair: identity of a point
\* object is equality of the record.
Points == [x : XVals, y : YVals]
\* JavaScript undefined where a point is expected
NoPoint == [x |-> 0, y |-> 0]
\* the 'stats' attribute after unset('stats')
NoStats == [minValue |-> 0, minPoint |-> NoPoint, maxValue |-> 0, maxPoint |-> NoPoint]

Min2(a, b) == IF a < b THEN a ELSE b
Max2(a, b) == IF a > b THEN a ELSE b

\* ------------------------------------------------ formats (collaborator)
\* format.format(value) yields the display string of a value; display
\* strings are the numbers DisplayBase + value, disjoint from raw values.
DisplayBase == 100
format_format(v) == DisplayBase + v
\* format.parse(point) yields the number held in the point's x field,
\* whether the field holds a raw value or a display string.
format_parse(point) == IF point.x >= DisplayBase THEN point.x - DisplayBase ELSE point.x

\* onXKeyChange: this.getXVal = format.parse.bind(format)
getXVal(point) == format_parse(point)
\* onYKeyChange: this.getYVal = format.parse.bind(format)
getYVal(point) == point.y

\* ------------------------------- metadata and limits (collaborators)
\* the keys of the value fields a series can plot, and those whose value
\* metadata declares an enumerated domain
YKeys == {"sin", "cos", "state"}
EnumKeys == {"state"}
\* JavaScript undefined where a key, a closure or an attribute is expected
NoKey == "undefined"
\* this.get('metadata').value(key)
valueMetadata(key) == [key |-> key, format |-> IF key \in EnumKeys THEN "enum" ELSE "float"]
\* this.limitEvaluator.evaluate(datum, valueMetadata): the classification
\* is a function of the datum and of the metadata it was evaluated with
limitEvaluator_evaluate(datum, metadata) == [datum |-> datum, key |-> metadata.key]

\* ----------------------------------------------------------- onYKeyChange
\* The configuration is the record [yKey, interpolate, evaluate, getYVal]:
\* the 'yKey' and 'interpolate' attributes, the key whose metadata the
\* evaluate closure captured and the key whose format getYVal is bound to.
\* onYKeyChange that sets stepAfter for every format but 'enum'
onYKeyChangeInverted(this, newKey, oldKey) ==
    IF newKey = oldKey THEN this
    ELSE [this EXCEPT
            !.interpolate = IF valueMetadata(newKey).format # "enum"
                            THEN "stepAfter" ELSE "linear",
            !.evaluate = valueMetadata(newKey).key,
            !.getYVal = newKey]

onYKeyChange(this, newKey, oldKey) ==
    IF newKey = oldKey THEN this
    ELSE [this EXCEPT
            !.interpolate = IF valueMetadata(newKey).format = "enum"
                            THEN "stepAfter" ELSE "linear",
            !.evaluate = valueMetadata(newKey).key,
            !.getYVal = newKey]

\* constructor, lines 42-50: Model.apply stores the options, then
\* this.onYKeyChange(this.get('yKey')) runs with oldKey undefined
constructed(yKey, interpolate) ==
    onYKeyChange([yKey |-> yKey, interpolate |-> interpolate,
                  evaluate |-> NoKey, getYVal |-> NoKey], yKey, NoKey)

\* ------------------------------------------------------- array helpers
At(d, i) == d[i + 1]
Range(d) == {d[i] : i \in 1..Len(d)}
\* Array.prototype.indexOf: first index holding the object, -1 if none
indexOf(d, point) ==
    IF \E i \in 1..Len(d) : d[i] = point
    THEN (CHOOSE i \in 1..Len(d) : d[i] = point /\ \A j \in 1..(i - 1) : d[j] # point) - 1
    ELSE -1
\* Array.prototype.slice(begin, end) for begin, end >= 0
slice(d, begin, end) ==
    LET e == Min2(end, Len(d))
    IN  IF begin >= e THEN <<>> ELSE SubSeq(d, begin + 1, e)
\* Array.prototype.splice(index, 1): a negative index counts from the end
spliceDelete(d, index) ==
    LET start == IF index < 0 THEN Max2(Len(d) + index, 0) ELSE Min2(index, Len(d))
    IN  IF start >= Len(d) THEN d
        ELSE SubSeq(d, 1, start) \o SubSeq(d, start + 2, Len(d))
\* Array.prototype.splice(index, 0, point)
spliceInsert(d, index, point) ==
    SubSeq(d, 1, index) \o <<point>> \o SubSeq(d, index + 1, Len(d))

\* --------------------------------------------------------------- events
Event(type, point, index) == [type |-> type, point |-> point, index |-> index]
\* this.emit(...): listeners run at once and see the series as it is at
\* that moment; 'seen' keeps what each emission showed them: the points and
\* whether the 'stats' attribute was set
emit(this, e) ==
    [this EXCEPT !.ev = Append(@, e),
                 !.seen = Append(@, [data |-> this.data,
                                     hasStats |-> this.stats # NoStats])]

\* ------------------------------------------------------------ sortedIndex
\* _.sortedIndex(this.data, point, this.getXVal): binary search for the
\* lowest index at which the value keeps the array sorted.
\* binary search that moves right on computed > value (comparison inverted)
RECURSIVE binaryIndexByInverted(_, _, _, _)
binaryIndexByInverted(array, value, low, high) ==
    IF low < high
    THEN LET mid == (low + high) \div 2
             computed == getXVal(At(array, mid))
         IN  IF computed > value
             THEN binaryIndexByInverted(array, value, mid + 1, high)
             ELSE binaryIndexByInverted(array, value, low, mid)
    ELSE high

RECURSIVE binaryIndexBy(_, _, _, _)
binaryIndexBy(array, value, low, high) ==
    IF low < high
    THEN LET mid == (low + high) \div 2
             computed == getXVal(At(array, mid))
         IN  IF computed < value
             THEN binaryIndexBy(array, value, mid + 1, high)
             ELSE binaryIndexBy(array, value, low, mid)
    ELSE high

sortedIndex(this, point) == binaryIndexBy(this.data, getXVal(point), 0, Len(this.data))

\* ------------------------------------------------------------ updateStats
\* updateStats whose maximum test is stats.maxValue <= value
updateStatsTieReplaces(this, point) ==
    LET value == getYVal(point)
        stats == this.stats
    IN  IF stats = NoStats
        THEN [this EXCEPT !.stats = [minValue |-> value, minPoint |-> point,
                                     maxValue |-> value, maxPoint |-> point]]
        ELSE LET s1 == IF stats.maxValue <= value
                       THEN [stats EXCEPT !.maxValue = value, !.maxPoint = point]
                       ELSE stats
                 s2 == IF s1.minValue > value
                       THEN [s1 EXCEPT !.minValue = value, !.minPoint = point]
                       ELSE s1
             IN  [this EXCEPT !.stats = s2]

\* updateStats whose minimum test is stats.minValue < value
updateStatsMinInverted(this, point) ==
    LET value == getYVal(point)
        stats == this.stats
    IN  IF stats = NoStats
        THEN [this EXCEPT !.stats = [minValue |-> value, minPoint |-> point,
                                     maxValue |-> value, maxPoint |-> point]]
        ELSE LET s1 == IF stats.maxValue < value
                       THEN [stats EXCEPT !.maxValue = value, !.maxPoint = point]
                       ELSE stats
                 s2 == IF s1.minValue < value
                       THEN [s1 EXCEPT !.minValue = value, !.minPoint = point]
                       ELSE s1
             IN  [this EXCEPT !.stats = s2]

updateStats(this, point) ==
    LET value == getYVal(point)
        stats == this.stats
    IN  IF stats = NoStats
        THEN [this EXCEPT !.stats = [minValue |-> value, minPoint |-> point,
                                     maxValue |-> value, maxPoint |-> point]]
        ELSE LET s1 == IF stats.maxValue < value
                       THEN [stats EXCEPT !.maxValue = value, !.maxPoint = point]
                       ELSE stats
                 s2 == IF s1.minValue > value
                       THEN [s1 EXCEPT !.minValue = value, !.minPoint = point]
                       ELSE s1
             IN  [this EXCEPT !.stats = s2]

\* this.data.forEach(this.updateStats, this)
RECURSIVE forEachUpdateStats(_, _)
forEachUpdateStats(this, pts) ==
    IF pts = <<>> THEN this
    ELSE forEachUpdateStats(updateStats(this, Head(pts)), Tail(pts))

\* resetStats without this.unset('stats')
resetStatsKeepOld(this) ==
    forEachUpdateStats(this, this.data)

resetStats(this) ==
    forEachUpdateStats([this EXCEPT !.stats = NoStats], this.data)

\* -------------------------------------------------------------------- add
\* add whose event carries the index of the last point instead of insertIndex
addEmitsLastIndex(this, point, appendOnly) ==
    LET insertIndex == IF appendOnly THEN Len(this.data) ELSE sortedIndex(this, point)
        sameX(i) == /\ i >= 0
                    /\ i < Len(this.data)
                    /\ getXVal(At(this.data, i)) = getXVal(point)
    IN  IF ~appendOnly /\ (sameX(insertIndex) \/ sameX(insertIndex - 1))
        THEN this
        ELSE LET s1 == updateStats(this, point)
                 \* point._limit = this.evaluate(point)
                 s2 == [s1 EXCEPT
                          !.limit = [q \in (DOMAIN @) \cup {point} |->
                                       IF q = point
                                       THEN limitEvaluator_evaluate(
                                                point, valueMetadata(this.evaluate))
                                       ELSE @[q]],
                          !.data = spliceInsert(@, insertIndex, point)]
             IN  emit(s2, Event("add", point, Len(this.data)))

\* add without the duplicate test on this.data[insertIndex]
addNoDupCheckAtIndex(this, point, appendOnly) ==
    LET insertIndex == IF appendOnly THEN Len(this.data) ELSE sortedIndex(this, point)
        sameX(i) == /\ i >= 0
                    /\ i < Len(this.data)
                    /\ getXVal(At(this.data, i)) = getXVal(point)
    IN  IF ~appendOnly /\ sameX(insertIndex - 1)
        THEN this
        ELSE LET s1 == updateStats(this, point)
                 \* point._limit = this.evaluate(point)
                 s2 == [s1 EXCEPT
                          !.limit = [q \in (DOMAIN @) \cup {point} |->
                                       IF q = point
                                       THEN limitEvaluator_evaluate(
                                                point, valueMetadata(this.evaluate))
                                       ELSE @[q]],
                          !.data = spliceInsert(@, insertIndex, point)]
             IN  emit(s2, Event("add", point, insertIndex))

add(this, point, appendOnly) ==
    LET insertIndex == IF appendOnly THEN Len(this.data) ELSE sortedIndex(this, point)
        \* getXVal(this.data[i]) === getXVal(point); an index outside the
        \* array reads undefined, which equals no x value
        sameX(i) == /\ i >= 0
                    /\ i < Len(this.data)
                    /\ getXVal(At(this.data, i)) = getXVal(point)
    IN  IF ~appendOnly /\ (sameX(insertIndex) \/ sameX(insertIndex - 1))
        THEN this
        ELSE LET s1 == updateStats(this, point)
                 \* point._limit = this.evaluate(point)
                 s2 == [s1 EXCEPT
                          !.limit = [q \in (DOMAIN @) \cup {point} |->
                                       IF q = point
                                       THEN limitEvaluator_evaluate(
                                                point, valueMetadata(this.evaluate))
                                       ELSE @[q]],
                          !.data = spliceInsert(@, insertIndex, point)]
             IN  emit(s2, Event("add", point, insertIndex))

\* addPoints(points, appendOnly): add each point in array order
RECURSIVE addPoints(_, _, _)
addPoints(this, pts, appendOnly) ==
    IF pts = <<>> THEN this
    ELSE addPoints(add(this, Head(pts), appendOnly), Tail(pts), appendOnly)

\* ----------------------------------------------------------------- remove
\* remove that rebuilds stats after the splice
removeThenResetStats(this, point) ==
    LET index == indexOf(this.data, point)
        s1 == [this EXCEPT !.data = spliceDelete(@, index)]
    IN  resetStats(emit(s1, Event("remove", point, index)))

remove(this, point) ==
    LET index == indexOf(this.data, point)
        s1 == [this EXCEPT !.data = spliceDelete(@, index)]
    IN  emit(s1, Event("remove", point, index))

\* array.forEach(this.remove, this)
RECURSIVE forEachRemove(_, _)
forEachRemove(this, pts) ==
    IF pts = <<>> THEN this
    ELSE forEachRemove(remove(this, Head(pts)), Tail(pts))

\* ------------------------------------------------------------------ reset
\* reset that emits 'reset' before it empties this.data and unsets stats
resetEmitsFirst(this, newData) ==
    LET s1 == emit(this, Event("reset", NoPoint, 0))
        s2 == resetStats([s1 EXCEPT !.data = <<>>])
    IN  IF newData.defined THEN addPoints(s2, newData.points, TRUE) ELSE s2

\* reset that appends the new data without emptying this.data first
resetKeepData(this, newData) ==
    LET s1 == resetStats(this)
        s2 == emit(s1, Event("reset", NoPoint, 0))
    IN  IF newData.defined THEN addPoints(s2, newData.points, TRUE) ELSE s2

\* newData is [defined |-> FALSE, points |-> <<>>] for reset() and
\* [defined |-> TRUE, points |-> array] for reset(array)
reset(this, newData) ==
    LET s1 == resetStats([this EXCEPT !.data = <<>>])
        s2 == emit(s1, Event("reset", NoPoint, 0))
    IN  IF newData.defined THEN addPoints(s2, newData.points, TRUE) ELSE s2

\* ----------------------------------------------------------- nearestPoint
\* nearestPoint that prefers the neighbour at the larger distance
nearestPointFarther(this, point) ==
    LET insertIndex == sortedIndex(this, point)
        hasLow == insertIndex - 1 >= 0 /\ insertIndex - 1 < Len(this.data)
        hasHigh == insertIndex < Len(this.data)
        lowPoint == IF hasLow THEN At(this.data, insertIndex - 1) ELSE NoPoint
        highPoint == IF hasHigh THEN At(this.data, insertIndex) ELSE NoPoint
        indexVal == getXVal(point)
        highCloser == /\ hasHigh
                      /\ \/ ~hasLow
                         \/ getXVal(highPoint) - indexVal > indexVal - getXVal(lowPoint)
    IN  IF highCloser THEN highPoint ELSE lowPoint

\* nearestPoint that compares highDistance <= lowDistance
nearestPointTieHigh(this, point) ==
    LET insertIndex == sortedIndex(this, point)
        hasLow == insertIndex - 1 >= 0 /\ insertIndex - 1 < Len(this.data)
        hasHigh == insertIndex < Len(this.data)
        lowPoint == IF hasLow THEN At(this.data, insertIndex - 1) ELSE NoPoint
        highPoint == IF hasHigh THEN At(this.data, insertIndex) ELSE NoPoint
        indexVal == getXVal(point)
        highCloser == /\ hasHigh
                      /\ \/ ~hasLow
                         \/ getXVal(highPoint) - indexVal <= indexVal - getXVal(lowPoint)
    IN  IF highCloser THEN highPoint ELSE lowPoint

nearestPoint(this, point) ==
    LET insertIndex == sortedIndex(this, point)
        hasLow == insertIndex - 1 >= 0 /\ insertIndex - 1 < Len(this.data)
        hasHigh == insertIndex < Len(this.data)
        lowPoint == IF hasLow THEN At(this.data, insertIndex - 1) ELSE NoPoint
        highPoint == IF hasHigh THEN At(this.data, insertIndex) ELSE NoPoint
        indexVal == getXVal(point)
        \* highDistance < lowDistance with Number.POSITIVE_INFINITY for a
        \* missing neighbour
        highCloser == /\ hasHigh
                      /\ \/ ~hasLow
                         \/ getXVal(highPoint) - indexVal < indexVal - getXVal(lowPoint)
    IN  IF highCloser THEN highPoint ELSE lowPoint

\* ------------------------------------------------------------------- load
\* lines 151-154, the callback of fetch(options).then(...) when the fetch
\* resolves with res: the 'load' event and the value load resolves with
\* the callback returning this.data instead of res
loadThenReturnsData(this, res) ==
    [this |-> emit(this, Event("load", NoPoint, 0)), settled |-> "resolved",
     value |-> this.data, reason |-> NoKey]

loadThen(this, res) ==
    [this |-> emit(this, Event("load", NoPoint, 0)), settled |-> "resolved",
     value |-> res, reason |-> NoKey]

\* lines 150-154 when the fetch rejects: then() has no rejection handler
\* a rejection handler that resolves load with an empty array
loadRejectedSwallowed(this, reason) ==
    [this |-> this, settled |-> "resolved", value |-> <<>>, reason |-> NoKey]

loadRejected(this, reason) ==
    [this |-> this, settled |-> "rejected", value |-> <<>>, reason |-> reason]

\* ----------------------------------------------- purgeRecordsOutsideRange
\* purge whose removed prefix is slice(0, startIndex + 1)
purgePrefixOneMore(this, range) ==
    LET startPoint == [x |-> format_format(range.min), y |-> 0]
        endPoint == [x |-> format_format(range.max), y |-> 0]
        startIndex == sortedIndex(this, startPoint)
        endIndex == sortedIndex(this, endPoint) + 1
        pointsToRemove == startIndex + (Len(this.data) - endIndex + 1)
    IN  IF pointsToRemove > 0
        THEN IF pointsToRemove < PurgeThreshold
             THEN LET s1 == forEachRemove(this, slice(this.data, 0, startIndex + 1))
                      s2 == forEachRemove(s1, slice(s1.data, endIndex, Len(s1.data)))
                  IN  resetStats(s2)
             ELSE reset(this, [defined |-> TRUE,
                               points |-> slice(this.data, startIndex, endIndex)])
        ELSE this

\* lines 248-257: the synthetic points at range.min and range.max, the
\* indices they sort at and the count the strategy is chosen by
purgeStartIndex(this, range) ==
    sortedIndex(this, [x |-> format_format(range.min), y |-> 0])
purgeEndIndex(this, range) ==
    sortedIndex(this, [x |-> format_format(range.max), y |-> 0]) + 1
purgePointsToRemove(this, range) ==
    purgeStartIndex(this, range) + (Len(this.data) - purgeEndIndex(this, range) + 1)

\* lines 260-262: the strategy of individual removals
purgeByRemoval(this, startIndex, endIndex) ==
    LET s1 == forEachRemove(this, slice(this.data, 0, startIndex))
        s2 == forEachRemove(s1, slice(s1.data, endIndex, Len(s1.data)))
    IN  resetStats(s2)

\* lines 264-265: the strategy of one reset with the retained window
purgeByReset(this, startIndex, endIndex) ==
    reset(this, [defined |-> TRUE, points |-> slice(this.data, startIndex, endIndex)])

purgeRecordsOutsideRange(this, range) ==
    LET startIndex == purgeStartIndex(this, range)
        endIndex == purgeEndIndex(this, range)
        pointsToRemove == purgePointsToRemove(this, range)
    IN  IF pointsToRemove > 0
        THEN IF pointsToRemove < PurgeThreshold
             THEN purgeByRemoval(this, startIndex, endIndex)
             ELSE purgeByReset(this, startIndex, endIndex)
        ELSE this

\* ------------------------------------------------------------------ state
VARIABLES
    data,       \* this.data
    stats,      \* the 'stats' attribute, NoStats when unset
    emitted,    \* events emitted by the last operation, in emission order
    seen,       \* what the series showed its listeners at each of these events
    subscriber, \* a listener of add, remove and reset, when one is attached
    config,     \* yKey, interpolate and what evaluate and getYVal are bound to
    limit,      \* the _limit of each stored point
    resetOnAppend,  \* this.resetOnAppend
    loads,      \* the calls of load: their fetch and what load settled with
    last        \* the last operation called, its arguments and return value

vars == <<data, stats, emitted, seen, subscriber, config, limit, resetOnAppend, loads, last>>

\* ------------------------------------------------------------- subscriber
\* A listener that mirrors the buffer from the events alone: add inserts the
\* point at the event's index, remove deletes the element at the event's
\* index, reset clears the list.  It also logs the points of the add events
\* in emission order.
NoSubscriber == [on |-> FALSE, list |-> <<>>, added |-> <<>>]
NewSubscriber(d) == [on |-> TRUE, list |-> d, added |-> <<>>]
onEvent(sub, e) ==
    IF e.type = "add"
    THEN [sub EXCEPT !.list = spliceInsert(@, e.index, e.point),
                     !.added = Append(@, e.point)]
    ELSE IF e.type = "remove"
    THEN [sub EXCEPT !.list = IF e.index >= 0 /\ e.index < Len(@)
                               THEN spliceDelete(@, e.index) ELSE @]
    ELSE IF e.type = "reset"
    THEN [sub EXCEPT !.list = <<>>]
    ELSE sub
RECURSIVE onEvents(_, _)
onEvents(sub, ev) ==
    IF ev = <<>> THEN sub ELSE onEvents(onEvent(sub, Head(ev)), Tail(ev))

NoData == [defined |-> FALSE, points |-> <<>>]
Call(op, point, appendOnly, min, max, newData, ret) ==
    [op |-> op, point |-> point, appendOnly |-> appendOnly, min |-> min, max |-> max,
     newData |-> newData, ret |-> ret]

\* the object at the start of an operation
This == [data |-> data, stats |-> stats, ev |-> <<>>, seen |-> <<>>,
         limit |-> limit, evaluate |-> config.evaluate]
\* the state an operation leaves.  _limit is a field of the point object;
\* the model keeps it for the points that are stored.
Becomes(s) == /\ data' = s.data
              /\ stats' = s.stats
              /\ emitted' = s.ev
              /\ seen' = s.seen
              /\ subscriber' = IF subscriber.on THEN onEvents(subscriber, s.ev)
                                ELSE subscriber
              /\ limit' = [q \in Range(s.data) |-> s.limit[q]]
\* the y key the series of Spec, SpecSorted and SpecAdds is constructed with
DefaultYKey == "sin"
NoLimits == [q \in {} |-> NoKey]
\* a call of load.  fetch: the promise of the fetch collaborator (none,
\* pending, resolved with 'fetched', rejected with 'error'); state: the
\* promise load returned (idle, pending, resolved with 'value', rejected
\* with 'reason'); interleaved: an operation ran while the fetch was pending
IdleLoad == [fetch |-> "none", fetched |-> <<>>, error |-> NoKey,
             state |-> "idle", value |-> <<>>, reason |-> NoKey,
             interleaved |-> FALSE]
NoLoads == [id \in 1..MaxLoads |-> IdleLoad]
\* the calls of load after an operation that ran while some were pending
Interleave(l) ==
    [id \in DOMAIN l |-> IF l[id].fetch = "pending"
                          THEN [l[id] EXCEPT !.interleaved = TRUE]
                          ELSE l[id]]

\* strictly ascending arrays of points, the arrays a caller of reset(array)
\* may pass under the documented contract
RECURSIVE SortedArray(_, _)
SortedArray(S, f) ==
    IF S = {} THEN <<>>
    ELSE LET m == CHOOSE v \in S : \A w \in S : v <= w
         IN  <<[x |-> m, y |-> f[m]]>> \o SortedArray(S \ {m}, f)
SortedArraysOver(X) == UNION {{SortedArray(S, f) : f \in [S -> YVals]} : S \in SUBSET X}
SortedArrays == SortedArraysOver(XVals)

Init ==
    /\ data = <<>>
    /\ stats = NoStats
    /\ emitted = <<>>
    /\ seen = <<>>
    /\ subscriber = NoSubscriber
    /\ config = constructed(DefaultYKey, NoKey)
    /\ limit = NoLimits
    /\ resetOnAppend = FALSE
    /\ loads = NoLoads
    /\ last = Call("new", NoPoint, FALSE, 0, 0, NoData, NoPoint)

\* add(point) and add(point, true).  The append-only path is called under
\* its documented contract: the point sorts after every stored point.
Add(point, appendOnly) ==
    /\ IF appendOnly /\ data # <<>>
       THEN getXVal(At(data, Len(data) - 1)) < getXVal(point)
       ELSE TRUE
    /\ Becomes(add(This, point, appendOnly))
    /\ UNCHANGED <<config, resetOnAppend>>
    /\ loads' = Interleave(loads)
    /\ last' = Call("add", point, appendOnly, 0, 0, NoData, NoPoint)

Remove(point) ==
    /\ Becomes(remove(This, point))
    /\ UNCHANGED <<config, resetOnAppend>>
    /\ loads' = Interleave(loads)
    /\ last' = Call("remove", point, FALSE, 0, 0, NoData, NoPoint)

Reset(newData) ==
    /\ Becomes(reset(This, newData))
    /\ UNCHANGED <<config, resetOnAppend>>
    /\ loads' = Interleave(loads)
    /\ last' = Call("reset", NoPoint, FALSE, 0, 0, newData, NoPoint)

ResetStats ==
    /\ Becomes(resetStats(This))
    /\ UNCHANGED <<config, resetOnAppend>>
    /\ loads' = Interleave(loads)
    /\ last' = Call("resetStats", NoPoint, FALSE, 0, 0, NoData, NoPoint)

NearestPoint(x) ==
    /\ UNCHANGED <<data, stats, subscriber, config, limit, resetOnAppend, loads>>
    /\ emitted' = <<>>
    /\ seen' = <<>>
    /\ last' = Call("nearestPoint", [x |-> x, y |-> 0], FALSE, 0, 0, NoData,
                    nearestPoint(This, [x |-> x, y |-> 0]))

PurgeRecordsOutsideRange(min, max) ==
    /\ Becomes(purgeRecordsOutsideRange(This, [min |-> min, max |-> max]))
    /\ UNCHANGED <<config, resetOnAppend>>
    /\ loads' = Interleave(loads)
    /\ last' = Call("purgeRecordsOutsideRange", NoPoint, FALSE, min, max, NoData, NoPoint)

\* a second purgeRecordsOutsideRange with the range of the call before it
PurgeRecordsOutsideRangeAgain ==
    /\ last.op = "purgeRecordsOutsideRange"
    /\ Becomes(purgeRecordsOutsideRange(This, [min |-> last.min, max |-> last.max]))
    /\ UNCHANGED <<config, resetOnAppend>>
    /\ loads' = Interleave(loads)
    /\ last' = Call("purgeRecordsOutsideRangeAgain", NoPoint, FALSE, last.min, last.max,
                    NoData, NoPoint)

\* this.set('yKey', newKey): Model.set stores the attribute and emits
\* 'change:yKey' with the new and the old value, which onYKeyChange hears
SetYKey(newKey) ==
    /\ config' = [onYKeyChange(config, newKey, config.yKey) EXCEPT !.yKey = newKey]
    /\ UNCHANGED <<data, stats, subscriber, limit, resetOnAppend>>
    /\ loads' = Interleave(loads)
    /\ emitted' = <<>>
    /\ seen' = <<>>
    /\ last' = Call("set:yKey", NoPoint, FALSE, 0, 0, NoData, NoPoint)

\* load(options), lines 147-150: the flag is set, fetch is called and a
\* pending promise is returned
Load(id) ==
    /\ loads[id].fetch = "none"
    /\ resetOnAppend' = TRUE
    /\ loads' = [Interleave(loads) EXCEPT ![id].fetch = "pending", ![id].state = "pending"]
    /\ UNCHANGED <<data, stats, subscriber, config, limit>>
    /\ emitted' = <<>>
    /\ seen' = <<>>
    /\ last' = Call("load", NoPoint, FALSE, 0, 0, NoData, NoPoint)

\* the fetch of a pending load resolves with res: the then callback runs
FetchResolves(id, res) ==
    /\ loads[id].fetch = "pending"
    /\ LET r == loadThen(This, res)
       IN  /\ Becomes(r.this)
           /\ loads' = [loads EXCEPT ![id].fetch = "resolved",
                                      ![id].fetched = res,
                                      ![id].state = r.settled,
                                      ![id].value = r.value,
                                      ![id].reason = r.reason]
    /\ UNCHANGED <<config, resetOnAppend>>
    /\ last' = Call("fetchResolved", NoPoint, FALSE, 0, 0, NoData, NoPoint)

\* the fetch of a pending load rejects with error
FetchRejects(id, error) ==
    /\ loads[id].fetch = "pending"
    /\ LET r == loadRejected(This, error)
       IN  /\ Becomes(r.this)
           /\ loads' = [loads EXCEPT ![id].fetch = "rejected",
                                      ![id].error = error,
                                      ![id].state = r.settled,
                                      ![id].value = r.value,
                                      ![id].reason = r.reason]
    /\ UNCHANGED <<config, resetOnAppend>>
    /\ last' = Call("fetchRejected", NoPoint, FALSE, 0, 0, NoData, NoPoint)

Next ==
    \/ \E point \in Points, appendOnly \in BOOLEAN : Add(point, appendOnly)
    \/ \E point \in Range(data) : Remove(point)
    \/ Reset(NoData)
    \/ ResetStats
    \/ \E min \in RangeVals, max \in RangeVals : PurgeRecordsOutsideRange(min, max)

Spec == Init /\ [][Next]_vars

\* SpecRemoveAny: as Spec, and remove is also called with points that are
\* not stored.
NextRemoveAny ==
    \/ Next
    \/ \E point \in Points \ Range(data) : Remove(point)

SpecRemoveAny == Init /\ [][NextRemoveAny]_vars

\* SpecSorted: the series holds any sorted, duplicate-free buffer with its
\* stats (the state reset(array) leaves), watched by a subscriber whose list
\* equals the buffer, and one operation is called on it.  A purge may be
\* followed by a second purge with the same range.
InitSorted ==
    /\ data \in SortedArraysOver(1..MaxSortedX)
    /\ stats = resetStats([data |-> data, stats |-> NoStats, ev |-> <<>>]).stats
    /\ emitted = <<>>
    /\ seen = <<>>
    /\ subscriber = NewSubscriber(data)
    /\ config = constructed(DefaultYKey, NoKey)
    /\ limit = [q \in Range(data) |->
                  limitEvaluator_evaluate(q, valueMetadata(config.evaluate))]
    /\ resetOnAppend = FALSE
    /\ loads = NoLoads
    /\ last = Call("new", NoPoint, FALSE, 0, 0, NoData, NoPoint)

\* no operation has been called on the buffer yet
Fresh == last.op = "new"

NextSorted ==
    \/ \E x \in SortedRangeVals : Fresh /\ NearestPoint(x)
    \/ \E min \in SortedRangeVals, max \in SortedRangeVals :
          Fresh /\ PurgeRecordsOutsideRange(min, max)
    \/ \E array \in SortedArrays : Fresh /\ Reset([defined |-> TRUE, points |-> array])
    \/ Fresh /\ Reset(NoData)
    \/ \E point \in Points, appendOnly \in BOOLEAN : Fresh /\ Add(point, appendOnly)
    \/ \E point \in Range(data) : Fresh /\ Remove(point)
    \/ PurgeRecordsOutsideRangeAgain

SpecSorted == InitSorted /\ [][NextSorted]_vars

\* SpecAdds: a new series with a subscriber attached, to which points are
\* added (both paths) and nothing else is done.
InitAdds ==
    /\ data = <<>>
    /\ stats = NoStats
    /\ emitted = <<>>
    /\ seen = <<>>
    /\ subscriber = NewSubscriber(<<>>)
    /\ config = constructed(DefaultYKey, NoKey)
    /\ limit = NoLimits
    /\ resetOnAppend = FALSE
    /\ loads = NoLoads
    /\ last = Call("new", NoPoint, FALSE, 0, 0, NoData, NoPoint)

NextAdds == \E point \in Points, appendOnly \in BOOLEAN : Add(point, appendOnly)

SpecAdds == InitAdds /\ [][NextAdds]_vars

\* SpecConfig: a series constructed with any y key and any interpolate
\* option, holding any sorted buffer classified under that key, whose y key
\* is then set any number of times.
InterpolateOptions == {NoKey, "linear", "stepAfter"}
InitConfig ==
    /\ data \in SortedArrays
    /\ stats = resetStats([data |-> data, stats |-> NoStats, ev |-> <<>>]).stats
    /\ emitted = <<>>
    /\ seen = <<>>
    /\ subscriber = NoSubscriber
    /\ \E yKey \in YKeys, interpolate \in InterpolateOptions :
          config = constructed(yKey, interpolate)
    /\ limit = [q \in Range(data) |->
                  limitEvaluator_evaluate(q, valueMetadata(config.evaluate))]
    /\ resetOnAppend = FALSE
    /\ loads = NoLoads
    /\ last = Call("new", NoPoint, FALSE, 0, 0, NoData, NoPoint)

NextConfig == \E newKey \in YKeys : SetYKey(newKey)

SpecConfig == InitConfig /\ [][NextConfig]_vars

\* SpecLoad: a new series on which load is called up to MaxLoads times;
\* each fetch resolves or rejects at any later moment, and add, remove,
\* reset and purgeRecordsOutsideRange run at any moment, on points of one
\* y value.
LoadPoints == {p \in Points : p.y = 1}
FetchResults == {<<>>, <<[x |-> 1, y |-> 1]>>, <<[x |-> 1, y |-> 1], [x |-> 2, y |-> 1]>>}
FetchErrors == {"timeout", "not found"}
NextLoad ==
    \/ \E id \in 1..MaxLoads : Load(id)
    \/ \E id \in 1..MaxLoads, res \in FetchResults : FetchResolves(id, res)
    \/ \E id \in 1..MaxLoads, error \in FetchErrors : FetchRejects(id, error)
    \/ \E point \in LoadPoints : Add(point, FALSE)
    \/ \E point \in Range(data) : Remove(point)
    \/ Reset(NoData)
    \/ \E min \in RangeVals, max \in RangeVals : PurgeRecordsOutsideRange(min, max)

SpecLoad == Init /\ [][NextLoad]_vars

\* ================================================================ claims
XsOf(d) == {getXVal(d[i]) : i \in 1..Len(d)}
YsOf(d) == {getYVal(d[i]) : i \in 1..Len(d)}
TrueMin(d) == CHOOSE v \in YsOf(d) : \A w \in YsOf(d) : v <= w
TrueMax(d) == CHOOSE v \in YsOf(d) : \A w \in YsOf(d) : v >= w
CountEvents(ev, type) == Cardinality({i \in 1..Len(ev) : ev[i].type = type})

\* C1: after every operation of a run that starts from the empty buffer
\* (add in any x order, remove of a stored point, reset(), resetStats,
\* purgeRecordsOutsideRange) the stored points are strictly ascending by
\* x value: no two share an x value.
C1_SortInvariant ==
    \A i \in 1..(Len(data) - 1) : getXVal(data[i]) < getXVal(data[i + 1])

\* an add(point) has just spliced its point in front of two stored points
C1_Witness ==
    /\ last.op = "add"
    /\ ~last.appendOnly
    /\ Len(data) = 3
    /\ emitted = <<Event("add", last.point, 0)>>

\* C2: an add(point) whose x value equals that of a stored point changes
\* neither points nor stats and emits no event.
C2_DedupNoOp ==
    [][(/\ last'.op = "add"
        /\ ~last'.appendOnly
        /\ getXVal(last'.point) \in XsOf(data))
       => (data' = data /\ stats' = stats /\ emitted' = <<>>)]_vars

\* an add(point) of a new object whose x value is already stored was rejected
C2_Witness ==
    /\ last.op = "add"
    /\ ~last.appendOnly
    /\ getXVal(last.point) \in XsOf(data)
    /\ last.point \notin Range(data)
    /\ Len(data) >= 2
    /\ emitted = <<>>

\* stats is present exactly when points are stored and then holds the true
\* minimum and maximum y value over the stored points
StatsTrue ==
    IF data = <<>> THEN stats = NoStats
    ELSE /\ stats # NoStats
         /\ stats.minValue = TrueMin(data)
         /\ stats.maxValue = TrueMax(data)

\* C3 as stated: after each operation stats, when present, has minValue and
\* maxValue equal to the true minimum and maximum y value over the points
\* currently stored.
C3_StatsAlwaysTrue ==
    (stats # NoStats /\ data # <<>>)
        => (stats.minValue = TrueMin(data) /\ stats.maxValue = TrueMax(data))

\* C3 amended: every operation other than remove (add, reset, resetStats,
\* purgeRecordsOutsideRange) leaves stats true when it was true before;
\* remove does not update stats.
C3_StatsTrueUnlessRemove ==
    [][(StatsTrue /\ last'.op # "remove") => StatsTrue']_vars

\* an add has just lowered the minimum of a buffer holding two y values
C3_Witness ==
    /\ last.op = "add"
    /\ Len(data) >= 2
    /\ stats # NoStats
    /\ stats.minValue < stats.maxValue
    /\ stats.minPoint = last.point
    /\ StatsTrue

\* the x value lies within [min, max] inclusive
InRange(point, min, max) == min <= getXVal(point) /\ getXVal(point) <= max
Purged == last.op = "purgeRecordsOutsideRange"

\* C4: after purgeRecordsOutsideRange({min, max}) every remaining point's
\* x value lies within [min, max] inclusive (ranges with min <= max).
C4_PurgeLeavesOnlyInRange ==
    (Purged /\ last.min <= last.max) => \A i \in 1..Len(data) : InRange(data[i], last.min, last.max)

\* C5: purgeRecordsOutsideRange({min, max}) keeps every point whose x value
\* was within [min, max], and the points it leaves are points of the buffer
\* before the call in their former relative order.
C5_PurgeKeepsInRange ==
    [][Purged' =>
        LET Keep(point) == InRange(point, last'.min, last'.max)
            Left(point) == point \in Range(data')
        IN  /\ SelectSeq(data', Keep) = SelectSeq(data, Keep)
            /\ data' = SelectSeq(data, Left)]_vars

\* a purge by individual removals has removed points on both sides of the
\* range and kept the points within it
C5_WitnessRemovals ==
    /\ Purged
    /\ Len(data) >= 2
    /\ CountEvents(emitted, "remove") >= 2
    /\ \E i \in 1..Len(emitted) : getXVal(emitted[i].point) < last.min
    /\ \E i \in 1..Len(emitted) : getXVal(emitted[i].point) > last.max
    /\ \E i \in 1..Len(data) : InRange(data[i], last.min, last.max)

\* C6: a purge that removes N points, 0 < N < threshold, emits exactly N
\* remove events and no reset event; a purge that removes N >= threshold
\* points emits exactly one reset event and no remove event (ranges with
\* min <= max).
C6_PurgeStrategyByRemovedCount ==
    [][(Purged' /\ last'.min <= last'.max) =>
        LET N == Len(data) - Len(data')
        IN  /\ (0 < N /\ N < PurgeThreshold)
                 => /\ CountEvents(emitted', "remove") = N
                    /\ CountEvents(emitted', "reset") = 0
            /\ N >= PurgeThreshold
                 => /\ CountEvents(emitted', "reset") = 1
                    /\ CountEvents(emitted', "remove") = 0]_vars

Abs(n) == IF n < 0 THEN -n ELSE n
Queried == last.op = "nearestPoint"

\* C7: nearestPoint returns a stored point whose absolute x distance to the
\* query is minimal over all stored points, returns undefined on an empty
\* buffer, and changes neither points nor stats.
C7_NearestIsClosest ==
    [][Queried' =>
        /\ data' = data
        /\ stats' = stats
        /\ IF data = <<>> THEN last'.ret = NoPoint
           ELSE /\ last'.ret \in Range(data)
                /\ \A i \in 1..Len(data) :
                      Abs(getXVal(last'.ret) - getXVal(last'.point))
                          <= Abs(getXVal(data[i]) - getXVal(last'.point))]_vars

\* a query strictly between two stored points returned the closer one,
\* which is neither the first nor the last point of the buffer
C7_Witness ==
    /\ Queried
    /\ Len(data) >= 3
    /\ last.ret \in Range(data)
    /\ last.ret # data[1]
    /\ last.ret # data[Len(data)]
    /\ getXVal(last.point) \notin XsOf(data)
    /\ \E i \in 1..Len(data) : getXVal(data[i]) < getXVal(last.point)
    /\ \E i \in 1..Len(data) : getXVal(data[i]) > getXVal(last.point)

\* the query value lies strictly between stored point i and its successor,
\* at equal distance from both
Tie(i) ==
    /\ i \in 1..(Len(data) - 1)
    /\ getXVal(data[i]) < getXVal(last.point)
    /\ getXVal(last.point) < getXVal(data[i + 1])
    /\ getXVal(last.point) - getXVal(data[i]) = getXVal(data[i + 1]) - getXVal(last.point)

\* C8 as stated: on an exact tie between predecessor and successor
\* nearestPoint returns the successor.
C8_TieReturnsSuccessor ==
    Queried => \A i \in 1..(Len(data) - 1) : Tie(i) => last.ret = data[i + 1]

\* C8 amended: on an exact tie between predecessor and successor
\* nearestPoint returns the predecessor (the point with the smaller x).
C8_TieReturnsPredecessor ==
    Queried => \A i \in 1..(Len(data) - 1) : Tie(i) => last.ret = data[i]

\* a query at equal distance from its two neighbours was answered
C8_Witness ==
    /\ Queried
    /\ \E i \in 1..(Len(data) - 1) : Tie(i)
    /\ last.ret \in Range(data)

\* C9: reset(newPoints) with newPoints sorted and duplicate-free leaves
\* points equal to newPoints in the same order, whatever was stored before,
\* and stats equal to a min/max scan of newPoints (absent for an empty
\* array).
C9_ResetSeeds ==
    (last.op = "reset" /\ last.newData.defined) =>
        /\ data = last.newData.points
        /\ IF last.newData.points = <<>> THEN stats = NoStats
           ELSE /\ stats # NoStats
                /\ stats.minValue = TrueMin(last.newData.points)
                /\ stats.maxValue = TrueMax(last.newData.points)
                /\ stats.minPoint \in Range(last.newData.points)
                /\ stats.maxPoint \in Range(last.newData.points)
                /\ getYVal(stats.minPoint) = stats.minValue
                /\ getYVal(stats.maxPoint) = stats.maxValue

\* reset(newPoints) was called with three points of differing y values
C9_Witness ==
    /\ last.op = "reset"
    /\ last.newData.defined
    /\ Len(last.newData.points) = 3
    /\ Len(data) = 3
    /\ stats # NoStats
    /\ stats.minValue < stats.maxValue

\* C10: remove(point) with a point that is not stored leaves points
\* unchanged and emits no remove event.
C10_RemoveAbsentIsNoOp ==
    [][(last'.op = "remove" /\ last'.point \notin Range(data))
        => (data' = data /\ CountEvents(emitted', "remove") = 0)]_vars

\* the first index (1-based) of d whose point has y value v
FirstWithY(d, v) ==
    CHOOSE i \in 1..Len(d) :
        getYVal(d[i]) = v /\ \A j \in 1..(i - 1) : getYVal(d[j]) # v
\* min/max scan of an array: the extremes and the first points reaching them
ScanStats(d) ==
    IF d = <<>> THEN NoStats
    ELSE [minValue |-> TrueMin(d), minPoint |-> d[FirstWithY(d, TrueMin(d))],
          maxValue |-> TrueMax(d), maxPoint |-> d[FirstWithY(d, TrueMax(d))]]

\* C13: resetStats, called in any state (stale stats included), leaves stats
\* absent on an empty buffer and otherwise the true min/max y value with the
\* first point in buffer order reaching each; it leaves points unchanged and
\* emits no add, remove or reset event.
C13_ResetStatsRebuilds ==
    [][last'.op = "resetStats" =>
        /\ stats' = ScanStats(data)
        /\ data' = data
        /\ CountEvents(emitted', "add") = 0
        /\ CountEvents(emitted', "remove") = 0
        /\ CountEvents(emitted', "reset") = 0]_vars

\* resetStats ran on a buffer in which two points tie for the minimum and a
\* third holds the maximum
C13_Witness ==
    /\ last.op = "resetStats"
    /\ Len(data) = 3
    /\ stats # NoStats
    /\ stats.minValue < stats.maxValue
    /\ \E i \in 1..Len(data) : \E j \in (i + 1)..Len(data) :
          /\ getYVal(data[i]) = stats.minValue
          /\ getYVal(data[j]) = stats.minValue
          /\ stats.minPoint = data[i]

\* C15: remove(point) of a stored point deletes exactly that point, keeps
\* the other points in order, emits one remove event carrying the index the
\* point held, and leaves stats as it was.
C15_RemoveStored ==
    [][(last'.op = "remove" /\ last'.point \in Range(data)) =>
        LET Other(point) == point # last'.point
            former == CHOOSE i \in 1..Len(data) : data[i] = last'.point
        IN  /\ data' = SelectSeq(data, Other)
            /\ Len(data') = Len(data) - 1
            /\ emitted' = <<Event("remove", last'.point, former - 1)>>
            /\ stats' = stats]_vars

\* the point recorded as stats.minPoint was removed from between two others
\* and stats still names it
C15_Witness ==
    /\ last.op = "remove"
    /\ Len(data) = 2
    /\ emitted = <<Event("remove", last.point, 1)>>
    /\ stats.minPoint = last.point
    /\ last.point \notin Range(data)

\* C19: for a sorted, duplicate-free buffer and a range (min <= max) that
\* makes purgeRecordsOutsideRange act, the strategy of individual removals
\* and the reset strategy leave the same sequence of points.
C19_PurgeStrategiesAgree ==
    [][(Purged' /\ last'.min <= last'.max) =>
        LET range == [min |-> last'.min, max |-> last'.max]
            startIndex == purgeStartIndex(This, range)
            endIndex == purgeEndIndex(This, range)
        IN  purgePointsToRemove(This, range) > 0
              => purgeByRemoval(This, startIndex, endIndex).data
                   = purgeByReset(This, startIndex, endIndex).data]_vars

\* C20: a second purgeRecordsOutsideRange with the same range (min <= max)
\* leaves points and stats as the first call left them and removes no
\* point.
C20_PurgeIdempotent ==
    [][(last'.op = "purgeRecordsOutsideRangeAgain" /\ last'.min <= last'.max) =>
        /\ data' = data
        /\ stats' = stats
        /\ CountEvents(emitted', "remove") = 0]_vars

\* C14: reset emits exactly one reset event, first, at which moment points
\* is empty and stats is absent; reset(newPoints) then emits one add event
\* per seed point, in seed order, with indices 0, 1, 2, ...; reset() emits
\* no add event.
C14_ResetEvents ==
    last.op = "reset" =>
        LET seed == IF last.newData.defined THEN last.newData.points ELSE <<>>
        IN  /\ Len(emitted) = 1 + Len(seed)
            /\ emitted[1] = Event("reset", NoPoint, 0)
            /\ seen[1].data = <<>>
            /\ ~seen[1].hasStats
            /\ \A i \in 1..Len(seed) : emitted[i + 1] = Event("add", seed[i], i - 1)

\* reset(newPoints) with two points was called and the subscriber received
\* the reset event and then the two add events
C14_Witness ==
    /\ last.op = "reset"
    /\ last.newData.defined
    /\ Len(last.newData.points) = 2
    /\ Len(emitted) = 3
    /\ subscriber.added = last.newData.points
    /\ subscriber.list = last.newData.points

\* the first point with y value v in the log of add events
FirstAddedWithY(added, v) ==
    added[CHOOSE i \in 1..Len(added) :
        /\ getYVal(added[i]) = v
        /\ \A j \in 1..(i - 1) : getYVal(added[j]) # v]

\* C16: after adds to a new series stats.minPoint and stats.maxPoint are the
\* earliest-inserted points with the minimum and the maximum y value, and
\* an add whose y value exceeds neither bound leaves stats as it was.
C16_FirstExtremeKept ==
    [][last'.op = "add" =>
        /\ stats' # NoStats =>
              /\ stats'.minValue = TrueMin(data')
              /\ stats'.maxValue = TrueMax(data')
              /\ stats'.minPoint = FirstAddedWithY(subscriber'.added, stats'.minValue)
              /\ stats'.maxPoint = FirstAddedWithY(subscriber'.added, stats'.maxValue)
        /\ (/\ stats # NoStats
            /\ stats.minValue <= getYVal(last'.point)
            /\ getYVal(last'.point) <= stats.maxValue) => stats' = stats]_vars

\* a point tying the maximum was added later, and at a smaller x value,
\* than the point recorded as stats.maxPoint
C16_Witness ==
    /\ last.op = "add"
    /\ Len(emitted) = 1
    /\ Len(data) >= 2
    /\ stats # NoStats
    /\ getYVal(last.point) = stats.maxValue
    /\ stats.maxPoint # last.point
    /\ getXVal(last.point) < getXVal(stats.maxPoint)

\* C18: a subscriber that applies every add, remove and reset event in
\* emission order holds a list identical to the buffer's points after the
\* operation; at each add event points[index] is the added point, and a
\* remove event names a point that is no longer stored.
C18_SubscriberMirrors ==
    subscriber.on =>
        /\ subscriber.list = data
        /\ \A i \in 1..Len(emitted) :
              /\ emitted[i].type = "add" =>
                    /\ emitted[i].index >= 0
                    /\ emitted[i].index < Len(seen[i].data)
                    /\ At(seen[i].data, emitted[i].index) = emitted[i].point
              /\ emitted[i].type = "remove" =>
                    /\ emitted[i].index >= 0
                    /\ emitted[i].point \notin Range(seen[i].data)

\* an add(point) spliced its point in front of stored points and the
\* subscriber followed
C18_Witness ==
    /\ subscriber.on
    /\ last.op = "add"
    /\ ~last.appendOnly
    /\ Len(emitted) = 1
    /\ emitted[1].index = 1
    /\ Len(data) >= 3
    /\ subscriber.list = data

C12_LoadRejects ==
    [][\A id \in 1..MaxLoads :
        (loads[id].fetch = "pending" /\ loads'[id].fetch = "rejected")
        => /\ loads'[id].state = "rejected"
           /\ loads'[id].reason = loads'[id].error
           /\ emitted' = <<>>
           /\ data' = data
           /\ stats' = stats]_vars

\* a load has just rejected with the failure of its fetch, on a buffer
\* that holds points
C12_Witness ==
    /\ last.op = "fetchRejected"
    /\ loads[1].state = "rejected"
    /\ loads[1].reason = "not found"
    /\ data # <<>>
    /\ stats # NoStats
    /\ emitted = <<>>

====
